---- MODULE Spec2Model ----
(***************************************************************************)
(* bend_gcode.py: a G-code file is read line by line and rewritten so that *)
(* the printed layers follow a cubic spline.                               *)
(*                                                                         *)
(* Text is modelled at character level: a line is a sequence of one-       *)
(* character strings ending in "\n", the output file is the sequence of    *)
(* the lines written.  Floating-point numbers are modelled as integers in  *)
(* units of 1/Scale (thousandths); a division rounds to the nearest unit.  *)
(***************************************************************************)
EXTENDS Integers, Sequences, FiniteSets, TLC

\* Resolution of the numbers of the model: 3 decimals, the precision writeLine
\* keeps for Z.
Scale == 10^3

\* Python's None for an optional string (a regex group that did not take part).
None == <<>>

Abs(v) == IF v < 0 THEN -v ELSE v

Sgn(v) == IF v < 0 THEN -1 ELSE IF v > 0 THEN 1 ELSE 0

\* a / b rounded to the nearest integer (b > 0): one floating-point division.
DivRound(a, b) == IF a >= 0 THEN (2 * a + b) \div (2 * b) ELSE -((2 * (-a) + b) \div (2 * b))

\* x * y for x, y in units of 1/Scale.
Mul(x, y) == DivRound(x * y, Scale)

(***************************************************************************)
(* Characters                                                              *)
(***************************************************************************)
Digits == <<"0", "1", "2", "3", "4", "5", "6", "7", "8", "9">>

IsDigit(c) == \E d \in 1..10 : Digits[d] = c

DigitVal(c) == (CHOOSE d \in 1..10 : Digits[d] = c) - 1

\* \s of the regular expression.
IsSpace(c) == c \in {" ", "\t", "\n"}

\* (?i): the field letters match in either case.
Lower(c) ==
    CASE c = "X" -> "x" [] c = "Y" -> "y" [] c = "Z" -> "z"
      [] c = "E" -> "e" [] c = "F" -> "f" [] OTHER -> c

(***************************************************************************)
(* float(s) and str(v)                                                     *)
(***************************************************************************)
RECURSIVE IntOf(_)
\* The value of a run of digits.
IntOf(s) == IF s = <<>> THEN 0 ELSE 10 * IntOf(SubSeq(s, 1, Len(s) - 1)) + DigitVal(s[Len(s)])

\* Position of the "." in s, Len(s) + 1 when there is none.
DotPos(s) == IF \E i \in 1..Len(s) : s[i] = "." THEN CHOOSE i \in 1..Len(s) : s[i] = "." ELSE Len(s) + 1

\* The first three decimals of a run of digits, as thousandths.
FracOf(s) ==
    LET d(i) == IF i <= Len(s) THEN DigitVal(s[i]) ELSE 0
    IN 100 * d(1) + 10 * d(2) + d(3)

\* float(s) of a decimal literal -?[0-9]*(.[0-9]*)?, in units of 1/Scale.  (float
\* raises ValueError for other text the regular expression lets through, such
\* as "1.2.3"; the lines of the model hold decimal literals only.)
Float(s) ==
    LET neg  == s # <<>> /\ s[1] = "-"
        body == IF neg THEN Tail(s) ELSE s
        dot  == DotPos(body)
        mag  == Scale * IntOf(SubSeq(body, 1, dot - 1)) + FracOf(SubSeq(body, dot + 1, Len(body)))
    IN IF neg THEN -mag ELSE mag

RECURSIVE StrNat(_)
\* str(n) of an integer n >= 0.
StrNat(n) == IF n < 10 THEN <<Digits[n + 1]>> ELSE StrNat(n \div 10) \o <<Digits[(n % 10) + 1]>>

\* The decimals of str(float): thousandths without trailing zeros, at least one digit.
StrFrac(m) ==
    IF m % 100 = 0 THEN <<Digits[(m \div 100) + 1]>>
    ELSE IF m % 10 = 0 THEN <<Digits[(m \div 100) + 1], Digits[((m \div 10) % 10) + 1]>>
    ELSE <<Digits[(m \div 100) + 1], Digits[((m \div 10) % 10) + 1], Digits[(m % 10) + 1]>>

\* str(v) of a float v given in units of 1/Scale: "1.0", "-0.25", "12.5".
StrFloat(v) ==
    (IF v < 0 THEN <<"-">> ELSE <<>>)
        \o StrNat(Abs(v) \div Scale) \o <<".">> \o StrFrac(Abs(v) % Scale)

(***************************************************************************)
(* parseGCode                                                              *)
(***************************************************************************)
\* GCodeLine of a line the regular expression does not match (parseGCode
\* returns None): ok is FALSE.
NoMatch == [ok |-> FALSE, x |-> None, y |-> None, z |-> None, e |-> None, f |-> None]

\* First position >= i of s that holds no white space (\s+ is greedy).
RECURSIVE SkipSpace(_, _)
SkipSpace(s, i) == IF i <= Len(s) /\ IsSpace(s[i]) THEN SkipSpace(s, i + 1) ELSE i

\* Number of characters of [0-9.]{1,15} taken from position i on: greedy, at most 15.
RECURSIVE NumRun(_, _, _)
NumRun(s, i, n) ==
    IF n < 15 /\ i <= Len(s) /\ (IsDigit(s[i]) \/ s[i] = ".") THEN NumRun(s, i + 1, n + 1) ELSE n

\* The repetition (?:\s+x(..)|\s+y(..)|\s+z(..)|\s+e(..)|\s+f(..))* from position
\* i on: each round takes white space, a field letter and a number; a group keeps
\* the text of the last round that matched it.  The repetition ends at the
\* first position where no round matches; the expression is not anchored at
\* the end of the line.
RECURSIVE Fields(_, _, _)
Fields(s, i, acc) ==
    LET j   == SkipSpace(s, i)
        k   == IF j + 1 <= Len(s) /\ s[j + 1] = "-" THEN j + 2 ELSE j + 1
        n   == NumRun(s, k, 0)
        let == Lower(s[j])
    IN IF j > i /\ j <= Len(s) /\ let \in {"x", "y", "z", "e", "f"} /\ n >= 1
       THEN Fields(s, k + n, [acc EXCEPT ![let] = SubSeq(s, j + 1, k + n - 1)])
       ELSE acc

\* parseGCode(currentLine): re.match of ^[gG][0-3] followed by the fields.
parseGCode(currentLine) ==
    IF Len(currentLine) >= 2 /\ currentLine[1] \in {"G", "g"}
          /\ currentLine[2] \in {"0", "1", "2", "3"}
    THEN Fields(currentLine, 3, [NoMatch EXCEPT !.ok = TRUE])
    ELSE NoMatch

\* s.find(pat) != -1: pat occurs somewhere in s.
Contains(s, pat) ==
    \E i \in 1..(Len(s) - Len(pat) + 1) : SubSeq(s, i, i + Len(pat) - 1) = pat

(***************************************************************************)
(* Command-line arguments and the spline                                   *)
(***************************************************************************)
VARIABLES
    arguments,          \* the parsed command line (never changes)
    SplineLookupTable,  \* arc length at height i * DISCRETIZATION_LENGTH, entry i + 1
    pc,                 \* "start", "loop", "done" or "crashed"
    inp,                \* the lines read from the input file so far
    out,                \* the lines written to the output file so far
    stdout,             \* the messages printed so far
    relativeMode,
    lastPosition,
    lastZ,
    currentZ,
    pre                 \* the processor state when the latest line was read

vars == <<arguments, SplineLookupTable, pc, inp, out, stdout,
          relativeMode, lastPosition, lastZ, currentZ, pre>>

\* The command lines of the model, lengths in 1/Scale: two control points each,
\* all positive (validateSplineInput), heights on the discretization grid.
\*   straight: a vertical line at x = 10 from height 1 to 2, end slope 0
\*   bent:     x = 10 at height 1 to x = 12 at height 3, end slope 2
\*             (the spline is then 10 + (h - 1)^2 / 2, its derivative h - 1)
Straight ==
    [x_spline |-> <<10000, 10000>>, z_spline |-> <<1000, 2000>>, layer_height |-> 500,
     max_angle |-> 30, disc_length |-> 500, spline_angle |-> 0]

Bent ==
    [x_spline |-> <<10000, 12000>>, z_spline |-> <<1000, 3000>>, layer_height |-> 1000,
     max_angle |-> 30, disc_length |-> 1000, spline_angle |-> 2000]

Arguments == {Straight, Bent}

LAYER_HEIGHT == arguments.layer_height

WARNING_ANGLE == arguments.max_angle

SPLINE_X == arguments.x_spline

SPLINE_Z == arguments.z_spline

DISCRETIZATION_LENGTH == arguments.disc_length

\* CubicSpline(SPLINE_Z, SPLINE_X, bc_type=((1, 0), (1, spline_angle))) for two
\* control points is the cubic through both points with first derivative 0 at
\* the first and spline_angle at the last; outside the control points the same
\* cubic is continued.  With u = (h - z0) / L:
\*     S(h) = x0 + A u^2 + B u^3,  A = 3 (x1 - x0) - a L,  B = a L - 2 (x1 - x0)
SplineA == 3 * (SPLINE_X[2] - SPLINE_X[1]) - Mul(arguments.spline_angle, SPLINE_Z[2] - SPLINE_Z[1])

SplineB == Mul(arguments.spline_angle, SPLINE_Z[2] - SPLINE_Z[1]) - 2 * (SPLINE_X[2] - SPLINE_X[1])

\* v * (h - z0) / L.
TimesU(v, h) == DivRound(v * (h - SPLINE_Z[1]), SPLINE_Z[2] - SPLINE_Z[1])

\* SPLINE(h): the offset at height h.
SPLINE(h) == SPLINE_X[1] + TimesU(TimesU(SplineA, h), h) + TimesU(TimesU(TimesU(SplineB, h), h), h)

\* SPLINE(h, 1): the first derivative at height h, (2 A u + 3 B u^2) / L.
SPLINE1(h) ==
    DivRound((2 * TimesU(SplineA, h) + 3 * TimesU(TimesU(SplineB, h), h)) * Scale,
             SPLINE_Z[2] - SPLINE_Z[1])

\* Largest r with r * r <= n, by bisection of lo..hi.
RECURSIVE Bisect(_, _, _)
Bisect(n, lo, hi) ==
    IF lo >= hi THEN lo
    ELSE LET mid == (lo + hi + 1) \div 2
         IN IF mid * mid <= n THEN Bisect(n, mid, hi) ELSE Bisect(n, lo, mid - 1)

\* np.sqrt(a^2 + b^2) for a, b in 1/Scale, rounded to the nearest unit.
Hypot(a, b) ==
    LET n == a * a + b * b
        r == Bisect(n, 0, Abs(a) + Abs(b))
    IN IF n - r * r > r THEN r + 1 ELSE r

\* np.arctan(derivative): the angle, kept as its tangent, sine and cosine.
arctan(derivative) ==
    LET h == Hypot(Scale, derivative)
    IN [t |-> derivative, sin |-> DivRound(derivative * Scale, h), cos |-> DivRound(Scale * Scale, h)]

\* np.sin(a - b) of two angles.
SinDiff(a, b) == Mul(a.sin, b.cos) - Mul(a.cos, b.sin)

\* tan of the angles used for --max-angle, in 1/Scale.
TanDeg(deg) == CASE deg = 30 -> 577 [] deg = 45 -> 1000 [] deg = 60 -> 1732

\* angle > WARNING_ANGLE * pi / 180, for an angle between -90 and 90 degrees.
AboveWarningAngle(angle) == angle.t > TanDeg(WARNING_ANGLE)

(***************************************************************************)
(* The arc-length table                                                    *)
(***************************************************************************)
\* len(np.arange(DISCRETIZATION_LENGTH, SPLINE_Z[-1], DISCRETIZATION_LENGTH)): the
\* heights DISCRETIZATION_LENGTH * k, k >= 1, below the last control height.
NumHeightSteps == (SPLINE_Z[Len(SPLINE_Z)] - 1) \div DISCRETIZATION_LENGTH

\* TableAfter adding the change of the offset alone, without the step in height.
RECURSIVE TableAfterOffsetOnly(_)
TableAfterOffsetOnly(i) ==
    IF i = 0 THEN <<0>>
    ELSE LET t      == TableAfterOffsetOnly(i - 1)
             height == i * DISCRETIZATION_LENGTH
         IN Append(t, t[i] + Abs(SPLINE(height) - SPLINE(height - DISCRETIZATION_LENGTH)))

\* The table after i rounds of the loop of createSplineLookupTable, from [0.0].
RECURSIVE TableAfter(_)
TableAfter(i) ==
    IF i = 0 THEN <<0>>
    ELSE LET t      == TableAfter(i - 1)
             height == i * DISCRETIZATION_LENGTH
         IN Append(t, t[i] + Hypot(SPLINE(height) - SPLINE(height - DISCRETIZATION_LENGTH),
                                   DISCRETIZATION_LENGTH))

\* onSplineLength with the loop one entry short: the last entry is never looked at.
onSplineLengthShortTable(Zheight) ==
    IF \E i \in 1..(Len(SplineLookupTable) - 1) : SplineLookupTable[i] >= Zheight
    THEN LET i == CHOOSE i \in 1..(Len(SplineLookupTable) - 1) :
                     /\ SplineLookupTable[i] >= Zheight
                     /\ \A j \in 1..(i - 1) : SplineLookupTable[j] < Zheight
         IN <<(i - 1) * DISCRETIZATION_LENGTH>>
    ELSE None

\* onSplineLength with > for >=: an entry equal to the height is passed over.
onSplineLengthStrict(Zheight) ==
    IF \E i \in 1..Len(SplineLookupTable) : SplineLookupTable[i] > Zheight
    THEN LET i == CHOOSE i \in 1..Len(SplineLookupTable) :
                     /\ SplineLookupTable[i] > Zheight
                     /\ \A j \in 1..(i - 1) : SplineLookupTable[j] <= Zheight
         IN <<(i - 1) * DISCRETIZATION_LENGTH>>
    ELSE None

\* onSplineLength(Zheight): <<i * DISCRETIZATION_LENGTH>> for the first entry
\* >= Zheight, None when the loop ends without one (after the print).
onSplineLength(Zheight) ==
    IF \E i \in 1..Len(SplineLookupTable) : SplineLookupTable[i] >= Zheight
    THEN LET i == CHOOSE i \in 1..Len(SplineLookupTable) :
                     /\ SplineLookupTable[i] >= Zheight
                     /\ \A j \in 1..(i - 1) : SplineLookupTable[j] < Zheight
         IN <<(i - 1) * DISCRETIZATION_LENGTH>>
    ELSE None

(***************************************************************************)
(* getNormalPoint and writeLine                                            *)
(***************************************************************************)
\* getNormalPoint without the + pi / 2: the point moves along the tangent.
getNormalPointAlongTangent(currentPoint, derivative, distance) ==
    LET a == arctan(derivative)
    IN [x    |-> currentPoint.x + Mul(distance, a.cos),
        y    |-> currentPoint.y + Mul(distance, a.sin),
        tiny |-> 0]

\* getNormalPoint: angle = arctan(derivative) + pi / 2, so cos(angle) is
\* -sin(arctan(derivative)) and sin(angle) is cos(arctan(derivative)).  In
\* floating point cos(pi / 2) is 6.1e-17 and not 0: for derivative 0 the x of
\* the result is currentPoint.x + distance * 6.1e-17.  tiny is the sign of
\* that term, which decides the comparisons of x with 0 when currentPoint.x = 0.
getNormalPoint(currentPoint, derivative, distance) ==
    LET a == arctan(derivative)
    IN [x    |-> currentPoint.x - Mul(distance, a.sin),
        y    |-> currentPoint.y + Mul(distance, a.cos),
        tiny |-> IF derivative = 0 THEN Sgn(distance) ELSE 0]

\* p.x <= 0.0 and p.x < 0 for a point getNormalPoint returned.
AtOrBelowZero(p) == p.x < 0 \/ (p.x = 0 /\ p.tiny <= 0)

BelowZero(p) == p.x < 0 \/ (p.x = 0 /\ p.tiny < 0)

\* round(v, ndigits) for v in 1/Scale: the nearest multiple of 10^-ndigits.
Round(v, ndigits) ==
    IF 10^ndigits >= Scale THEN v
    ELSE LET step == Scale \div 10^ndigits IN step * DivRound(v, step)

\* str(int(v)): truncation towards zero.
StrInt(v) == (IF v <= -Scale THEN <<"-">> ELSE <<>>) \o StrNat(Abs(v) \div Scale)

\* writeLine with X and Z taken from each other's argument.
writeLineZForX(G, X, Y, Z, F, E) ==
    <<"G">> \o StrNat(G) \o <<" ", "X">> \o StrFloat(Round(Z, 5))
        \o <<" ", "Y">> \o StrFloat(Round(Y, 5)) \o <<" ", "Z">> \o StrFloat(Round(X, 3))
        \o (IF E # None THEN <<" ", "E">> \o StrFloat(Round(E[1], 5)) ELSE <<>>)
        \o (IF F # None THEN <<" ", "F">> \o StrInt(F[1]) ELSE <<>>)
        \o <<"\n">>

\* The line writeLine(G, X, Y, Z, F, E) writes; F and E are None or <<value>>.
writeLine(G, X, Y, Z, F, E) ==
    <<"G">> \o StrNat(G) \o <<" ", "X">> \o StrFloat(Round(X, 5))
        \o <<" ", "Y">> \o StrFloat(Round(Y, 5)) \o <<" ", "Z">> \o StrFloat(Round(Z, 3))
        \o (IF E # None THEN <<" ", "E">> \o StrFloat(Round(E[1], 5)) ELSE <<>>)
        \o (IF F # None THEN <<" ", "F">> \o StrInt(F[1]) ELSE <<>>)
        \o <<"\n">>

(***************************************************************************)
(* The input lines of the model                                            *)
(***************************************************************************)
\* ;G91 \n: a comment (it holds the text of a mode switch)
CommentLine == <<";", "G", "9", "1", " ", "\n">>

\* G91 \n: G91 followed by a space
RelativeLine == <<"G", "9", "1", " ", "\n">>

\* G91\n: G91 alone on its line
RelativeAlone == <<"G", "9", "1", "\n">>

\* G90 \n: G90 followed by a space
AbsoluteLine == <<"G", "9", "0", " ", "\n">>

\* G1 Z1 ;G90 \n: a vertical move whose comment holds the text of a mode switch
NotedLift == <<"G", "1", " ", "Z", "1", " ", ";", "G", "9", "0", " ", "\n">>

\* M83\n: no linear move
OtherLine == <<"M", "8", "3", "\n">>

\* G1 F9\n: a move with neither x, y nor z
FeedLine == <<"G", "1", " ", "F", "9", "\n">>

\* G1 Z.75 F9\n: a vertical move with a feed rate, off the discretization grid
LiftLine == <<"G", "1", " ", "Z", ".", "7", "5", " ", "F", "9", "\n">>

\* G1 X10 Y5 E1\n: a move to the x of the first control point
MoveCentre == <<"G", "1", " ", "X", "1", "0", " ", "Y", "5", " ", "E", "1", "\n">>

\* G1 X30 Y5 E.5\n: a move 20 to the right of it
MoveRight == <<"G", "1", " ", "X", "3", "0", " ", "Y", "5", " ", "E", ".", "5", "\n">>

\* g0 x5 y5 f9\n: a rapid move 5 to the left of it, in lower case, with a feed
\* rate and no extrusion
MoveLeft == <<"g", "0", " ", "x", "5", " ", "y", "5", " ", "f", "9", "\n">>

\* G0 X-70 Y5 Z2 F9\n: a rapid move 80 to the left, at height 2
MoveFar == <<"G", "0", " ", "X", "-", "7", "0", " ", "Y", "5", " ", "Z", "2", " ", "F", "9", "\n">>

\* G1 X5 Z3\n: x and z without y, to a height above both tables
OnlyX == <<"G", "1", " ", "X", "5", " ", "Z", "3", "\n">>

\* G1 Y5\n: y alone
OnlyY == <<"G", "1", " ", "Y", "5", "\n">>

Lines == {CommentLine, RelativeLine, RelativeAlone, AbsoluteLine, NotedLift,
          OtherLine, FeedLine, LiftLine, MoveCentre,
          MoveRight, MoveLeft, MoveFar, OnlyX, OnlyY}

\* Longest input file of the model, in lines.
MaxLines == 3

\* parseGCode(currentLine) for every line of the model.
Commands == [currentLine \in Lines |-> parseGCode(currentLine)]

\* The text the program looks for to recognise the two mode switches.
G91 == <<"G", "9", "1", " ">>

G90 == <<"G", "9", "0", " ">>

(***************************************************************************)
(* The program                                                             *)
(***************************************************************************)
\* The +-50 of the implausible-move test, in mm.
ImplausibleDistance == 50

Init ==
    /\ arguments \in Arguments
    /\ SplineLookupTable = <<0>>
    /\ pc = "start"
    /\ inp = <<>>
    /\ out = <<>>
    /\ stdout = <<>>
    /\ relativeMode = FALSE
    /\ lastPosition = [x |-> 0, y |-> 0]
    /\ lastZ = 0
    /\ currentZ = 0
    /\ pre = [relativeMode |-> FALSE, lastPosition |-> [x |-> 0, y |-> 0], lastZ |-> 0,
              currentZ |-> 0, out |-> 0, stdout |-> 0]

\* createSplineLookupTable(), called once before the files are opened.
createSplineLookupTable ==
    /\ pc = "start"
    /\ SplineLookupTable' = TableAfter(NumHeightSteps)
    /\ pc' = "loop"
    /\ UNCHANGED <<arguments, inp, out, stdout, relativeMode, lastPosition, lastZ, currentZ, pre>>

\* for currentLine in gcodeFile: the next line is read.
ReadLine(currentLine) ==
    /\ pc = "loop"
    /\ Len(inp) < MaxLines
    /\ inp' = Append(inp, currentLine)
    /\ pre' = [relativeMode |-> relativeMode, lastPosition |-> lastPosition, lastZ |-> lastZ,
               currentZ |-> currentZ, out |-> Len(out), stdout |-> Len(stdout)]
    /\ UNCHANGED <<arguments, SplineLookupTable>>

IsComment(currentLine) == currentLine[1] = ";"

\* IsRelativeSwitch looking for "G91" without the space after it.
IsRelativeSwitchNoSpace(currentLine) == Contains(currentLine, <<"G", "9", "1">>)

IsRelativeSwitch(currentLine) == Contains(currentLine, G91)

IsAbsoluteSwitch(currentLine) == Contains(currentLine, G90)

\* Which of the first three tests of the loop body the line meets, in their
\* order: "comment", "relative", "absolute", or "parse" when it meets none and
\* reaches "if relativeMode".
FirstTest(currentLine) ==
    IF IsComment(currentLine) THEN "comment"
    ELSE IF IsRelativeSwitch(currentLine) THEN "relative"
    ELSE IF IsAbsoluteSwitch(currentLine) THEN "absolute"
    ELSE "parse"

\* FirstTest for every line of the model.
Tests == [currentLine \in Lines |-> FirstTest(currentLine)]

ReachesParse(currentLine) == Tests[currentLine] = "parse"

\* "if relativeMode: outputFile.write(currentLine)", with its continue commented
\* out: what is written before the line is parsed.
RelativeWrite(currentLine) == IF relativeMode THEN <<currentLine>> ELSE <<>>

Comment(currentLine) ==
    /\ ReadLine(currentLine)
    /\ Tests[currentLine] = "comment"
    /\ out' = Append(out, currentLine)
    /\ UNCHANGED <<pc, stdout, relativeMode, lastPosition, lastZ, currentZ>>

SwitchToRelative(currentLine) ==
    /\ ReadLine(currentLine)
    /\ Tests[currentLine] = "relative"
    /\ relativeMode' = TRUE
    /\ out' = Append(out, currentLine)
    /\ UNCHANGED <<pc, stdout, lastPosition, lastZ, currentZ>>

SwitchToAbsolute(currentLine) ==
    /\ ReadLine(currentLine)
    /\ Tests[currentLine] = "absolute"
    /\ relativeMode' = FALSE
    /\ out' = Append(out, currentLine)
    /\ UNCHANGED <<pc, stdout, lastPosition, lastZ, currentZ>>

\* parseGCode returns None: the else branch of the loop body.
NotACommand(currentLine) ==
    /\ ReadLine(currentLine)
    /\ ReachesParse(currentLine)
    /\ ~Commands[currentLine].ok
    /\ out' = out \o RelativeWrite(currentLine) \o <<currentLine>>
    /\ UNCHANGED <<pc, stdout, relativeMode, lastPosition, lastZ, currentZ>>

\* currentZ after "if currentLineCommands.z is not None: currentZ = float(...)".
HeightOf(currentLineCommands) ==
    IF currentLineCommands.z # None THEN Float(currentLineCommands.z) ELSE currentZ

\* "x is None or y is None": not a print move.
NoPrintMove(currentLineCommands) == currentLineCommands.x = None \/ currentLineCommands.y = None

\* ZHop keeping the x or y of the line in the relative move.
ZHopWithXY(currentLineCommands) ==
    << <<"G", "9", "1", "\n">>,
       <<"G", "1">>
           \o (IF currentLineCommands.x # None THEN <<" ", "X">> \o currentLineCommands.x ELSE <<>>)
           \o (IF currentLineCommands.y # None THEN <<" ", "Y">> \o currentLineCommands.y ELSE <<>>)
           \o <<" ", "Z">> \o StrFloat(HeightOf(currentLineCommands) - lastZ)
           \o (IF currentLineCommands.f # None THEN <<" ", "F">> \o currentLineCommands.f ELSE <<>>)
           \o <<"\n">>,
       <<"G", "9", "0", "\n">> >>

\* ZHop writing the height itself instead of the difference to lastZ.
ZHopToHeight(currentLineCommands) ==
    << <<"G", "9", "1", "\n">>,
       <<"G", "1", " ", "Z">> \o StrFloat(HeightOf(currentLineCommands))
           \o (IF currentLineCommands.f # None THEN <<" ", "F">> \o currentLineCommands.f ELSE <<>>)
           \o <<"\n">>,
       <<"G", "9", "0", "\n">> >>

\* The three lines written for a move that only changes z.
ZHop(currentLineCommands) ==
    << <<"G", "9", "1", "\n">>,
       <<"G", "1", " ", "Z">> \o StrFloat(HeightOf(currentLineCommands) - lastZ)
           \o (IF currentLineCommands.f # None THEN <<" ", "F">> \o currentLineCommands.f ELSE <<>>)
           \o <<"\n">>,
       <<"G", "9", "0", "\n">> >>

\* A move without x or without y that has a z.
VerticalMove(currentLine) ==
    LET currentLineCommands == Commands[currentLine]
    IN /\ ReadLine(currentLine)
       /\ ReachesParse(currentLine)
       /\ currentLineCommands.ok
       /\ NoPrintMove(currentLineCommands)
       /\ currentLineCommands.z # None
       /\ currentZ' = HeightOf(currentLineCommands)
       /\ out' = out \o RelativeWrite(currentLine) \o ZHop(currentLineCommands)
       /\ lastZ' = HeightOf(currentLineCommands)
       /\ UNCHANGED <<pc, stdout, relativeMode, lastPosition>>

\* A move without x or without y and without z.
NoMove(currentLine) ==
    LET currentLineCommands == Commands[currentLine]
    IN /\ ReadLine(currentLine)
       /\ ReachesParse(currentLine)
       /\ currentLineCommands.ok
       /\ NoPrintMove(currentLineCommands)
       /\ currentLineCommands.z = None
       /\ out' = out \o RelativeWrite(currentLine) \o <<currentLine>>
       /\ UNCHANGED <<pc, stdout, relativeMode, lastPosition, lastZ, currentZ>>

\* What the loop body computes for a print move at height z (currentZ) coming
\* from position last (lastPosition), when the table holds z: the names are
\* those of the source.
Transform(currentLineCommands, last, z) ==
    LET currentPosition      == [x |-> Float(currentLineCommands.x), y |-> Float(currentLineCommands.y)]
        midpointX            == last.x + DivRound(currentPosition.x - last.x, 2)
        distToSpline         == midpointX - SPLINE_X[1]
        correctedZHeight     == onSplineLength(z)[1]
        angleSplineThisLayer == arctan(SPLINE1(correctedZHeight))
        angleLastLayer       == arctan(SPLINE1(correctedZHeight - LAYER_HEIGHT))
    IN [currentPosition      |-> currentPosition,
        correctedZHeight     |-> correctedZHeight,
        angleSplineThisLayer |-> angleSplineThisLayer,
        heightDifference     |-> -Mul(SinDiff(angleSplineThisLayer, angleLastLayer), distToSpline),
        transformedGCode     |-> getNormalPoint([x |-> correctedZHeight, y |-> SPLINE(correctedZHeight)],
                                                SPLINE1(correctedZHeight),
                                                currentPosition.x - SPLINE_X[1])]

\* BelowPlatform with < for <=.
BelowPlatformStrict(t) == BelowZero(t.transformedGCode)

\* "Check if a move is below Z = 0".
BelowPlatform(t) == AtOrBelowZero(t.transformedGCode)

\* Unplausible without the test of the distance.
UnplausibleOnlyNegative(t, z) == BelowZero(t.transformedGCode)

\* "Detect unplausible moves": transformedGCode.x < 0 or
\* np.abs(transformedGCode.x - currentZ) > 50.
Unplausible(t, z) ==
    BelowZero(t.transformedGCode) \/ Abs(t.transformedGCode.x - z) > ImplausibleDistance * Scale

\* SelfIntersection with the sign of heightDifference turned.
SelfIntersectionMinus(t) == LAYER_HEIGHT - t.heightDifference < 0

\* "Check for self intersection".
SelfIntersection(t) == LAYER_HEIGHT + t.heightDifference < 0

BelowMessage == "Warning! Movement below build platform. Check your spline!"

UnplausibleMessage == "Warning! Possibly unplausible move detected"

IntersectionMessage == "ERROR! Self intersection"

AngleMessage == "Warning! Spline angle"

RangeMessage == "Error! Spline not defined high enough!"

FinishedMessage == "GCode bending finished!"

Said(condition, message) == IF condition THEN <<message>> ELSE <<>>

\* ExtrusionAmount with 0 for None: a move without e extrudes nothing.
ExtrusionAmountOrZero(currentLineCommands, t) ==
    IF currentLineCommands.e # None
    THEN <<Mul(Float(currentLineCommands.e),
               DivRound((LAYER_HEIGHT + t.heightDifference) * Scale, LAYER_HEIGHT))>>
    ELSE <<0>>

\* float(e) * ((LAYER_HEIGHT + heightDifference) / LAYER_HEIGHT), None without e.
ExtrusionAmount(currentLineCommands, t) ==
    IF currentLineCommands.e # None
    THEN <<Mul(Float(currentLineCommands.e),
               DivRound((LAYER_HEIGHT + t.heightDifference) * Scale, LAYER_HEIGHT))>>
    ELSE None

\* A move with x and y (the guard shared by the three actions below).
PrintMove(currentLine) ==
    /\ ReadLine(currentLine)
    /\ ReachesParse(currentLine)
    /\ Commands[currentLine].ok
    /\ ~NoPrintMove(Commands[currentLine])
    /\ currentZ' = HeightOf(Commands[currentLine])

\* onSplineLength finds no entry, prints and returns None; SPLINE(None, 1)
\* then raises TypeError, which nothing catches: the program ends.
HeightOutOfRange(currentLine) ==
    LET currentLineCommands == Commands[currentLine]
    IN /\ PrintMove(currentLine)
       /\ onSplineLength(HeightOf(currentLineCommands)) = None
       /\ stdout' = Append(stdout, RangeMessage)
       /\ out' = out \o RelativeWrite(currentLine)
       /\ pc' = "crashed"
       /\ UNCHANGED <<relativeMode, lastPosition, lastZ>>

\* UnplausibleMove recording the height of the discarded move in lastZ.
UnplausibleMoveRecordsHeight(currentLine) ==
    LET currentLineCommands == Commands[currentLine]
        t == Transform(currentLineCommands, lastPosition, HeightOf(currentLineCommands))
    IN /\ PrintMove(currentLine)
       /\ onSplineLength(HeightOf(currentLineCommands)) # None
       /\ Unplausible(t, HeightOf(currentLineCommands))
       /\ stdout' = stdout \o Said(BelowPlatform(t), BelowMessage) \o <<UnplausibleMessage>>
       /\ out' = out \o RelativeWrite(currentLine) \o <<currentLine>>
       /\ lastZ' = HeightOf(currentLineCommands)
       /\ UNCHANGED <<pc, relativeMode, lastPosition>>

\* The move is judged unplausible: the line is written as it is.
UnplausibleMove(currentLine) ==
    LET currentLineCommands == Commands[currentLine]
        t == Transform(currentLineCommands, lastPosition, HeightOf(currentLineCommands))
    IN /\ PrintMove(currentLine)
       /\ onSplineLength(HeightOf(currentLineCommands)) # None
       /\ Unplausible(t, HeightOf(currentLineCommands))
       /\ stdout' = stdout \o Said(BelowPlatform(t), BelowMessage) \o <<UnplausibleMessage>>
       /\ out' = out \o RelativeWrite(currentLine) \o <<currentLine>>
       /\ UNCHANGED <<pc, relativeMode, lastPosition, lastZ>>

\* The move is written on the spline.
TransformedMove(currentLine) ==
    LET currentLineCommands == Commands[currentLine]
        t == Transform(currentLineCommands, lastPosition, HeightOf(currentLineCommands))
    IN /\ PrintMove(currentLine)
       /\ onSplineLength(HeightOf(currentLineCommands)) # None
       /\ ~Unplausible(t, HeightOf(currentLineCommands))
       /\ stdout' = stdout \o Said(BelowPlatform(t), BelowMessage)
                           \o Said(SelfIntersection(t), IntersectionMessage)
                           \o Said(AboveWarningAngle(t.angleSplineThisLayer), AngleMessage)
       /\ out' = out \o RelativeWrite(currentLine)
                     \o <<writeLine(1, t.transformedGCode.y, t.currentPosition.y, t.transformedGCode.x,
                                    None, ExtrusionAmount(currentLineCommands, t))>>
       /\ lastPosition' = t.currentPosition
       /\ lastZ' = HeightOf(currentLineCommands)
       /\ UNCHANGED <<pc, relativeMode>>

\* The input file ends: the with block closes both files and the last print runs.
Finish ==
    /\ pc = "loop"
    /\ pc' = "done"
    /\ stdout' = Append(stdout, FinishedMessage)
    /\ UNCHANGED <<arguments, SplineLookupTable, inp, out, relativeMode, lastPosition, lastZ,
                   currentZ, pre>>

Next ==
    \/ createSplineLookupTable
    \/ \E currentLine \in Lines :
          \/ Comment(currentLine)
          \/ SwitchToRelative(currentLine)
          \/ SwitchToAbsolute(currentLine)
          \/ NotACommand(currentLine)
          \/ VerticalMove(currentLine)
          \/ NoMove(currentLine)
          \/ HeightOutOfRange(currentLine)
          \/ UnplausibleMove(currentLine)
          \/ TransformedMove(currentLine)
    \/ Finish

Spec == Init /\ [][Next]_vars

\* The program is one sequential loop that nothing suspends: it keeps taking
\* steps until the input ends or an exception ends it.
FairSpec == Spec /\ WF_vars(Next)

(***************************************************************************)
(* What the latest line did: the observations the claims are stated with   *)
(***************************************************************************)
\* A line has been read.
Seen == inp # <<>>

\* The latest line read and what parseGCode makes of it.
Line == inp[Len(inp)]

Cmd == Commands[Line]

\* The output lines and the messages the latest line produced.
Block == SubSeq(out, pre.out + 1, Len(out))

Printed == SubSeq(stdout, pre.stdout + 1, Len(stdout))

Reported(message) == \E i \in 1..Len(Printed) : Printed[i] = message

\* The latest line was parsed as a move (it is neither a comment nor taken as a
\* mode switch) ...
Parsed == Seen /\ ReachesParse(Line) /\ Cmd.ok

\* ... with x and y: a curve-following move,
CurveMove == Parsed /\ Cmd.x # None /\ Cmd.y # None

\* ... with z and neither x nor y: a pure vertical move.
PureVertical == Parsed /\ Cmd.x = None /\ Cmd.y = None /\ Cmd.z # None

\* The arc-length table holds the height of the latest move (currentZ is set
\* from the line before the lookup).
InRange == \E i \in 1..Len(SplineLookupTable) : SplineLookupTable[i] >= currentZ

\* The transform of the latest line, a curve-following move in range.
T == Transform(Cmd, pre.lastPosition, currentZ)

\* The line writeLine writes for the latest line, its transformed form.
Rewritten ==
    writeLine(1, T.transformedGCode.y, T.currentPosition.y, T.transformedGCode.x, None,
              ExtrusionAmount(Cmd, T))

\* The last output line the latest line produced.
LastWritten == Block[Len(Block)]

\* The text "G91\n" and "G90\n" of a mode switch alone on its line.
SwitchRelativeText == <<"G", "9", "1", "\n">>

SwitchAbsoluteText == <<"G", "9", "0", "\n">>

(***************************************************************************)
(* C1                                                                      *)
(***************************************************************************)
\* C1: a line read in Relative mode is forwarded unmodified: the output receives
\* exactly that line, once, and nothing else.
C1_RelativeForwardsUnmodified == (Seen /\ pre.relativeMode) => Block = <<Line>>

(***************************************************************************)
(* C2                                                                      *)
(***************************************************************************)
\* The three lines the claim names for the latest line: G91, "G1 Z<d>" with
\* d = z of the line - lastZ before it and " F<f>" when the line has f, G90.
C2_Bracket ==
    << SwitchRelativeText,
       <<"G", "1", " ", "Z">> \o StrFloat(Float(Cmd.z) - pre.lastZ)
           \o (IF Cmd.f # None THEN <<" ", "F">> \o Cmd.f ELSE <<>>) \o <<"\n">>,
       SwitchAbsoluteText >>

C3_PlainLine ==
    Seen /\ (IsComment(Line) \/ ~parseGCode(Line).ok
                \/ (parseGCode(Line).x = None /\ parseGCode(Line).y = None /\ parseGCode(Line).z = None))

\* The latest line was written once, as it is, and changed nothing of the state.
C3_PassedThrough ==
    /\ Block = <<Line>>
    /\ relativeMode = pre.relativeMode
    /\ lastPosition = pre.lastPosition
    /\ lastZ = pre.lastZ
    /\ currentZ = pre.currentZ

\* C3 as stated: in Absolute mode every such line passes through and leaves
\* relativeMode, lastPosition, lastZ and currentZ unchanged.
C3_PlainLinesPassThrough == (C3_PlainLine /\ ~pre.relativeMode) => C3_PassedThrough

\* C3 amended: the same for every such line that is a comment or does not hold
\* the text "G91 " (which switches to Relative mode).
C3_PlainLinesPassThroughUnlessSwitch ==
    (C3_PlainLine /\ ~pre.relativeMode /\ (IsComment(Line) \/ ~Contains(Line, G91)))
        => C3_PassedThrough

\* A line that is no linear move, and is no switch either, was read in Absolute
\* mode after the state had left its initial values.
C3_Witness ==
    /\ C3_PlainLine /\ ~pre.relativeMode /\ ~IsComment(Line) /\ ~Contains(Line, G91)
    /\ ~parseGCode(Line).ok
    /\ pre.lastZ # 0 /\ pre.lastPosition.x # 0

(***************************************************************************)
(* C4                                                                      *)
(***************************************************************************)
\* C4: when the height of a curve-following move is above every entry of the
\* table, the error is reported, the line is passed through and the run goes on.
C4_RangeErrorIsRecoverable ==
    (CurveMove /\ ~InRange)
        => (Reported(RangeMessage) /\ pc # "crashed" /\ Block # <<>> /\ Block[Len(Block)] = Line)

(***************************************************************************)
(* C5                                                                      *)
(***************************************************************************)
\* The transformed height of the latest move is negative or more than 50 away
\* from the height of the move.
C5_Implausible ==
    BelowZero(T.transformedGCode) \/ Abs(T.transformedGCode.x - currentZ) > 50 * Scale

\* The transform was discarded with a warning and the line written as it is,
\* and nothing else; otherwise the line as it is was not written.
C5_DiscardedOrRewritten ==
    IF C5_Implausible
    THEN Reported(UnplausibleMessage) /\ Block = <<Line>>
    ELSE \A i \in 1..Len(Block) : Block[i] # Line

C6_Below == CurveMove /\ InRange /\ AtOrBelowZero(T.transformedGCode)

\* C6 as stated: such a move is reported and still written in its transformed
\* form, not as the original line.
C6_BelowPlatformStillTransformed ==
    C6_Below => (Reported(BelowMessage) /\ Block # <<>> /\ LastWritten = Rewritten
                    /\ LastWritten # Line)

\* C6 amended: such a move is reported and not dropped; it is written in its
\* transformed form when the height is exactly 0 and the height of the move
\* is at most 50, and as the original line otherwise (a negative height).
C6_BelowPlatformNeverDropped ==
    C6_Below
        => /\ Reported(BelowMessage)
           /\ Block # <<>>
           /\ LastWritten =
                 IF T.transformedGCode.x = 0 /\ T.transformedGCode.tiny = 0 /\ currentZ <= 50 * Scale
                 THEN Rewritten ELSE Line

\* A move whose transformed height is exactly 0 was written transformed.
C6_Witness ==
    /\ C6_Below /\ Reported(BelowMessage)
    /\ T.transformedGCode.x = 0 /\ T.transformedGCode.tiny = 0
    /\ LastWritten = Rewritten /\ LastWritten # Line

(***************************************************************************)
(* C7                                                                      *)
(***************************************************************************)
\* layerHeight + heightDelta < 0 for the latest move.
C7_Intersects == CurveMove /\ InRange /\ LAYER_HEIGHT + T.heightDifference < 0

\* The error is reported, the run goes on and the line is written transformed,
\* its extrusion multiplied by (layerHeight + heightDelta) / layerHeight.
C7_ReportedAndTransformed ==
    /\ Reported(IntersectionMessage)
    /\ pc # "crashed"
    /\ Block # <<>> /\ LastWritten = Rewritten
    /\ Cmd.e # None
          => Float(parseGCode(LastWritten).e)
                = Mul(Float(Cmd.e), DivRound((LAYER_HEIGHT + T.heightDifference) * Scale, LAYER_HEIGHT))

\* C7 as stated: for every such move, whatever the other checks find.
C7_SelfIntersectionAlwaysReported == C7_Intersects => C7_ReportedAndTransformed

\* C7 amended: for every such move that is not discarded as implausible.
C7_SelfIntersectionReportedUnlessDiscarded ==
    (C7_Intersects /\ ~C5_Implausible) => C7_ReportedAndTransformed

\* A self-intersecting move with extrusion was reported and written transformed,
\* its extrusion turned negative.
C7_Witness ==
    /\ C7_Intersects /\ ~C5_Implausible /\ Cmd.e # None
    /\ Reported(IntersectionMessage)
    /\ Float(parseGCode(LastWritten).e) < 0

(***************************************************************************)
(* C8                                                                      *)
(***************************************************************************)
\* The line is the command word (G91 or G90), alone or followed by a space or
\* a comment.
C8_IsCommand(line, word) ==
    /\ Len(line) > Len(word)
    /\ SubSeq(line, 1, Len(word)) = word
    /\ line[Len(word) + 1] \in {" ", ";", "\n"}

\* C8: the mode is Absolute at the start, Relative after a G91 line and
\* Absolute after a G90 line, the switch line is forwarded as it is, and no
\* other line changes the mode.
C8_ModeFollowsSwitchLines ==
    /\ ~Seen => ~relativeMode
    /\ (Seen /\ C8_IsCommand(Line, <<"G", "9", "1">>)) => (relativeMode /\ Block = <<Line>>)
    /\ (Seen /\ C8_IsCommand(Line, <<"G", "9", "0">>)) => (~relativeMode /\ Block = <<Line>>)
    /\ (Seen /\ ~C8_IsCommand(Line, <<"G", "9", "1">>) /\ ~C8_IsCommand(Line, <<"G", "9", "0">>))
          => relativeMode = pre.relativeMode

(***************************************************************************)
(* C9                                                                      *)
(***************************************************************************)
\* The latest line wrote at least one output line.
C9_BlockNotEmpty == (Seen /\ pc # "crashed") => Block # <<>>

\* A step reads at most one line, appended to those read, and only appends to
\* the output; it writes only when it reads a line.
C9_InOrder ==
    /\ Len(inp') <= Len(inp) + 1
    /\ SubSeq(inp', 1, Len(inp)) = inp
    /\ Len(out') >= Len(out)
    /\ SubSeq(out', 1, Len(out)) = out
    /\ inp' = inp => out' = out
    /\ inp' # inp => pre'.out = Len(out)

\* The run ends early only at a curve-following move above the table's range.
C9_StopsOnlyOutOfRange == pc = "crashed" => (CurveMove /\ ~InRange)

C10_StraightCurve == SPLINE_X[1] = SPLINE_X[2] /\ arguments.spline_angle = 0

\* C10: on such a curve the line written for a curve-following move has the X
\* of the input (to 5 decimals) and, with an e field, the E of the input.
C10_StraightKeepsXAndE ==
    (C10_StraightCurve /\ CurveMove /\ InRange)
        => /\ Block # <<>>
           /\ parseGCode(LastWritten).ok
           /\ parseGCode(LastWritten).x # None
           /\ Float(parseGCode(LastWritten).x) = Round(Float(Cmd.x), 5)
           /\ Cmd.e # None
                 => /\ parseGCode(LastWritten).e # None
                    /\ Float(parseGCode(LastWritten).e) = Round(Float(Cmd.e), 5)

\* On the straight curve a move with extrusion, away from the curve's x, coming
\* from another position and above height 0, was written transformed.
C10_Witness ==
    /\ C10_StraightCurve /\ CurveMove /\ InRange
    /\ Cmd.e # None /\ Float(Cmd.x) # SPLINE_X[1]
    /\ pre.lastPosition.x # 0 /\ currentZ > 0
    /\ LastWritten = Rewritten /\ LastWritten # Line

(***************************************************************************)
(* C11                                                                     *)
(***************************************************************************)
\* The fields of the last line written for the latest line.
Emitted == parseGCode(LastWritten)

\* C11: on the straight curve a curve-following move read in Absolute mode is
\* written as one line with the X, Y and E of the input (to 5 decimals) and
\* with the height of the move as its Z (to 3 decimals), on and off the grid of
\* the table.
C11_StraightIsIdentity ==
    (C10_StraightCurve /\ CurveMove /\ InRange /\ ~pre.relativeMode)
        => /\ Len(Block) = 1
           /\ Emitted.ok
           /\ Emitted.x # None /\ Float(Emitted.x) = Round(Float(Cmd.x), 5)
           /\ Emitted.y # None /\ Float(Emitted.y) = Round(Float(Cmd.y), 5)
           /\ (Emitted.e # None) = (Cmd.e # None)
           /\ Cmd.e # None => Float(Emitted.e) = Round(Float(Cmd.e), 5)
           /\ LastWritten # Line => (Emitted.z # None /\ Float(Emitted.z) = Round(currentZ, 3))

(***************************************************************************)
(* C12                                                                     *)
(***************************************************************************)
\* The arc lengths looked up: 0, and every entry of the table with the lengths
\* just below and just above it.
C12_Lengths ==
    {0} \cup UNION {{SplineLookupTable[i] - 1, SplineLookupTable[i], SplineLookupTable[i] + 1} :
                       i \in 1..Len(SplineLookupTable)}

\* The index (from 0, as in the source) the forward scan stops at for t, from
\* index i on; the length of the table when it finds no entry.
RECURSIVE C12_Scan(_, _)
C12_Scan(t, i) ==
    IF i >= Len(SplineLookupTable) THEN i
    ELSE IF SplineLookupTable[i + 1] >= t THEN i
    ELSE C12_Scan(t, i + 1)

\* C12: onSplineLength(t) is i * DISCRETIZATION_LENGTH for the first index i
\* whose entry is >= t, and onSplineLength(0) is 0, for every curve and step.
C12_FirstEntryAtLeast ==
    /\ onSplineLength(0) = <<0>>
    /\ \A t \in C12_Lengths :
          LET i == C12_Scan(t, 0)
          IN i < Len(SplineLookupTable) => onSplineLength(t) = <<i * DISCRETIZATION_LENGTH>>
    /\ (CurveMove /\ InRange)
          => T.correctedZHeight = C12_Scan(currentZ, 0) * DISCRETIZATION_LENGTH

\* The table is built and a move was looked up at a height between two
\* entries: the height found is above the height of the move.
C12_Witness ==
    /\ Len(SplineLookupTable) > 2
    /\ CurveMove /\ InRange /\ LastWritten = Rewritten
    /\ T.correctedZHeight > currentZ
    /\ C12_Scan(currentZ, 0) > 1

(***************************************************************************)
(* C13                                                                     *)
(***************************************************************************)
\* The first entry is 0 and every entry is at least the one before it plus the
\* discretization length.
C13_TableGrows ==
    /\ SplineLookupTable[1] = 0
    /\ \A i \in 1..(Len(SplineLookupTable) - 1) :
          SplineLookupTable[i + 1] >= SplineLookupTable[i] + DISCRETIZATION_LENGTH

\* A step taken once the table is built leaves the table as it is.
C13_TableKept == pc # "start" => SplineLookupTable' = SplineLookupTable

\* C13: while lines are processed the table starts with 0, grows by at least
\* the discretization length per entry, has one entry per height step below the
\* last control height, and no step of the loop changes it.
C13_TableBuiltOnce ==
    /\ [](pc # "start" => (C13_TableGrows /\ Len(SplineLookupTable) = NumHeightSteps + 1))
    /\ [][C13_TableKept]_vars

\* The whole input was read with a table of a bent curve, whose entries grow
\* by more than the discretization length, and the last move was transformed.
C13_Witness ==
    /\ pc = "done" /\ Len(inp) = MaxLines
    /\ Len(SplineLookupTable) > 2
    /\ SplineLookupTable[2] > DISCRETIZATION_LENGTH
    /\ CurveMove /\ InRange /\ LastWritten = Rewritten

(***************************************************************************)
(* C14                                                                     *)
(***************************************************************************)
\* The Z heights that occur in the lines read so far.
C14_Heights ==
    {Float(Commands[inp[k]].z) : k \in {j \in 1..Len(inp) : Commands[inp[j]].ok /\ Commands[inp[j]].z # None}}

\* C14: when no height of the input is above the last control height, the
\* lookup for a curve-following move finds an entry of the table and the
\* "not defined high enough" error is not printed.
C14_LookupFindsEntry ==
    (CurveMove /\ \A h \in C14_Heights : h <= SPLINE_Z[Len(SPLINE_Z)])
        => (InRange /\ ~Reported(RangeMessage) /\ pc # "crashed")

(***************************************************************************)
(* C15                                                                     *)
(***************************************************************************)
\* The latest line is a curve-following move written in its rewritten form.
C15_RewrittenMove == CurveMove /\ InRange /\ ~C5_Implausible

\* The projected point: (correctedHeight, valueAt(correctedHeight)) moved along
\* the local normal by x - curveOriginX.  Its first component lies on the
\* height axis, its second on the offset axis.
C15_HeightAxis == T.transformedGCode.x

C15_OffsetAxis == T.transformedGCode.y

\* C15 as stated: Y is the input y, Z the offset-axis component and X the
\* height-axis component of the projected point.
C15_ZFromOffsetXFromHeight ==
    C15_RewrittenMove
        => /\ Emitted.ok /\ Emitted.x # None /\ Emitted.y # None /\ Emitted.z # None
           /\ Float(Emitted.y) = Round(Float(Cmd.y), 5)
           /\ Float(Emitted.z) = Round(C15_OffsetAxis, 3)
           /\ Float(Emitted.x) = Round(C15_HeightAxis, 5)

\* C15 amended: Y is the input y, Z the height-axis component and X the
\* offset-axis component of the projected point.
C15_ZFromHeightXFromOffset ==
    C15_RewrittenMove
        => /\ Emitted.ok /\ Emitted.x # None /\ Emitted.y # None /\ Emitted.z # None
           /\ Float(Emitted.y) = Round(Float(Cmd.y), 5)
           /\ Float(Emitted.z) = Round(C15_HeightAxis, 3)
           /\ Float(Emitted.x) = Round(C15_OffsetAxis, 5)

\* A move away from the curve's x was rewritten where the curve is inclined: the
\* normal moved the point on both axes, to different values.
C15_Witness ==
    /\ C15_RewrittenMove
    /\ SPLINE1(T.correctedZHeight) # 0
    /\ C15_HeightAxis # T.correctedZHeight
    /\ C15_OffsetAxis # SPLINE(T.correctedZHeight)
    /\ C15_HeightAxis # C15_OffsetAxis
    /\ Float(Emitted.z) = C15_HeightAxis

(***************************************************************************)
(* C16                                                                     *)
(***************************************************************************)
\* The latest line was written as the relative-Z bracket of a vertical move.
C16_Bracketed == Parsed /\ (Cmd.x = None \/ Cmd.y = None) /\ Cmd.z # None

\* Line k of the input was parsed as a move with a z field.
C16_HeightMove(k) == ReachesParse(inp[k]) /\ Commands[inp[k]].ok /\ Commands[inp[k]].z # None

\* Line k of the input, a move with a z field, was discarded as implausible:
\* the transformed height of a move depends on its own x and z alone.
C16_Discarded(k) ==
    LET cmd == Commands[inp[k]]
        z   == Float(cmd.z)
    IN /\ cmd.x # None /\ cmd.y # None
       /\ \E i \in 1..Len(SplineLookupTable) : SplineLookupTable[i] >= z
       /\ LET p == Transform(cmd, [x |-> 0, y |-> 0], z).transformedGCode
          IN BelowZero(p) \/ Abs(p.x - z) > 50 * Scale

\* The latest move with a z field was discarded as implausible.
C16_LatestHeightMoveDiscarded ==
    \E k \in 1..Len(inp) :
        /\ C16_HeightMove(k)
        /\ \A j \in (k + 1)..Len(inp) : ~C16_HeightMove(j)
        /\ C16_Discarded(k)

\* C16: the state starts at the origin and height 0; lastPosition changes only
\* with a move written transformed, to the x and y of that move; lastZ changes
\* only with such a move or a vertical bracket, to currentZ; after a line has
\* been processed lastZ differs from currentZ only when the latest move with z
\* was discarded as implausible.
C16_PositionAndHeightFrame ==
    /\ ~Seen => (lastPosition = [x |-> 0, y |-> 0] /\ lastZ = 0 /\ currentZ = 0)
    /\ (Seen /\ pc # "crashed") =>
          /\ lastPosition # pre.lastPosition => C15_RewrittenMove
          /\ C15_RewrittenMove
                => (lastPosition = [x |-> Float(Cmd.x), y |-> Float(Cmd.y)] /\ lastZ = currentZ)
          /\ lastZ # pre.lastZ => (C15_RewrittenMove \/ C16_Bracketed)
          /\ C16_Bracketed => (lastZ = currentZ /\ lastPosition = pre.lastPosition)
          /\ ~(C15_RewrittenMove \/ C16_Bracketed)
                => (lastPosition = pre.lastPosition /\ lastZ = pre.lastZ)
          /\ (CurveMove /\ Cmd.z # None) => currentZ = Float(Cmd.z)
          /\ lastZ # currentZ => C16_LatestHeightMoveDiscarded

\* After a move with z was discarded (lastZ stayed, currentZ moved), a later
\* move was written transformed and both lastPosition and lastZ followed it.
C16_Witness ==
    /\ Seen /\ pc # "crashed"
    /\ pre.lastZ # pre.currentZ
    /\ C15_RewrittenMove
    /\ lastPosition # pre.lastPosition /\ lastZ # pre.lastZ /\ lastZ = currentZ

(***************************************************************************)
(* C17                                                                     *)
(***************************************************************************)
\* The line is a G91 or a G90 command.
C17_IsSwitch(line) ==
    C8_IsCommand(line, <<"G", "9", "1">>) \/ C8_IsCommand(line, <<"G", "9", "0">>)

\* The positioning mode in effect at the end of a sequence of lines: TRUE for
\* relative, set by the last G91 or G90 command; absolute at the start.
C17_RelativeAfter(lines) ==
    LET switches == {k \in 1..Len(lines) : C17_IsSwitch(lines[k])}
    IN IF switches = {} THEN FALSE
       ELSE LET last == CHOOSE k \in switches : \A j \in switches : j <= k
            IN C8_IsCommand(lines[last], <<"G", "9", "1">>)

\* C17: after every processed line the mode at the end of the output is the
\* mode at the end of the input, and both are relativeMode.
C17_OutputModeIsInputMode ==
    (Seen /\ pc # "crashed")
        => /\ C17_RelativeAfter(out) = C17_RelativeAfter(inp)
           /\ C17_RelativeAfter(inp) = relativeMode

(***************************************************************************)
(* C18                                                                     *)
(***************************************************************************)
\* The places of a letter in a line.
C18_Places(line, letter) == {k \in 1..Len(line) : line[k] = letter}

\* The line holds the letter once, after every place in before.
C18_OnceAfter(line, letter, before) ==
    /\ Cardinality(C18_Places(line, letter)) = 1
    /\ \A k \in C18_Places(line, letter) : \A j \in before : j < k

\* C18: a rewritten line is a G1 move with X, Y and Z in this order, with E
\* after them exactly when the input line has e, and without F.
C18_RewrittenIsG1XYZ ==
    C15_RewrittenMove
        => /\ SubSeq(LastWritten, 1, 4) = <<"G", "1", " ", "X">>
           /\ C18_OnceAfter(LastWritten, "Y", C18_Places(LastWritten, "X"))
           /\ C18_OnceAfter(LastWritten, "Z", C18_Places(LastWritten, "Y"))
           /\ Emitted.ok /\ Emitted.x # None /\ Emitted.y # None /\ Emitted.z # None
           /\ (Emitted.e # None) = (Cmd.e # None)
           /\ Cmd.e # None => C18_OnceAfter(LastWritten, "E", C18_Places(LastWritten, "Z"))
           /\ Cmd.e = None => C18_Places(LastWritten, "E") = {}
           /\ Emitted.f = None
           /\ C18_Places(LastWritten, "F") = {} /\ C18_Places(LastWritten, "f") = {}

\* A rapid move (G0) with a feed rate and no extrusion was rewritten.
C18_Witness ==
    /\ C15_RewrittenMove
    /\ Lower(Line[1]) = "g" /\ Line[2] = "0"
    /\ Cmd.f # None /\ Cmd.e = None
    /\ LastWritten = Rewritten /\ LastWritten # Line

(***************************************************************************)
(* C19                                                                     *)
(***************************************************************************)
\* The latest line was parsed as a move with exactly one of x and y.
C19_OneOfXY == Parsed /\ ((Cmd.x = None) # (Cmd.y = None))

\* No line of the block holds an x or a y field.
C19_NoXY ==
    \A i \in 1..Len(Block) :
        \A k \in 1..Len(Block[i]) : Lower(Block[i][k]) \notin {"x", "y"}

\* Without z the line is passed through as it is; with z the bracket of the
\* vertical move is written alone, without the x or y of the line.
C19_PassedOrBracketed ==
    IF Cmd.z = None THEN Block = <<Line>> ELSE (Block = C2_Bracket /\ C19_NoXY)

====
